---- MODULE Spec2Model ----
(***************************************************************************)
(* A model of the beetle_collatz library.                                  *)
(*                                                                         *)
(* The library is a set of pure functions over non-zero unsigned integers. *)
(* One behaviour of the model is one call: Init draws the function and its *)
(* arguments, every loop of the called function advances one iteration per *)
(* step, and the call ends in a state with pc = "done" holding the result. *)
(*                                                                         *)
(* Two generations of the code are in the repository.  src/src/lib.rs is   *)
(* the u128 library (definitions without prefix).  steps.rs and rules.rs   *)
(* are generic over an unsigned integer type T (definitions prefixed       *)
(* gen_); they are modelled for a T of Width bits, where overflow is       *)
(* reachable.  The u128 functions are modelled with exact arithmetic: with *)
(* arguments up to MaxN every value they compute stays far below 2^128     *)
(* (InU128Range below is checked as an invariant on 2^30).                 *)
(***************************************************************************)
EXTENDS Integers, Sequences, FiniteSets, TLC

VARIABLES
    fn,      \* the function called
    args,    \* its arguments
    build,   \* "debug" (overflow checks on) or "release" (wrapping arithmetic)
    pc,      \* "run" while the call is executing, "done" once it has ended
    loc,     \* the local variables of the running function
    result   \* how the call ended

vars == <<fn, args, build, pc, loc, result>>

---------------------------------------------------------------------------
(* Bounds of the model *)

\* largest argument of the single-value functions (alpha, omega, transformations)
MaxN == 72
\* largest range bound given to the range functions
MaxStop == 15
\* largest step given to check_range_omega_all_odds
MaxStepBy == 4
\* bit width of the type T the generic functions are instantiated with (u8)
Width == 8

\* largest value of T
MaxT == 2^Width - 1

---------------------------------------------------------------------------
(* How a call ends *)

Running == [kind |-> "running"]
\* a plain return value
Ret(v) == [kind |-> "ret", val |-> v]
\* Option::Some / Option::None
Some(v) == [kind |-> "Some", val |-> v]
None == [kind |-> "None"]
\* the thread panics (failed assertion, or arithmetic overflow in a debug build)
Panic == [kind |-> "panic"]
\* the loop never exits
Hang == [kind |-> "hang"]

---------------------------------------------------------------------------
(* Integer primitives *)

\* n & 1 == 1
is_odd(n) == n % 2 = 1

\* {integer}::trailing_zeros for a type of w bits: the number of low zero bits,
\* w for the value 0.
RECURSIVE trailing_zeros(_, _)
trailing_zeros(m, w) ==
    IF m = 0 THEN w
    ELSE IF m % 2 = 1 THEN 0
    ELSE 1 + trailing_zeros(m \div 2, w)

\* bits of u128
U128Bits == 128

---------------------------------------------------------------------------
(* lib.rs: helpers and rules *)

\* the division done once only, whatever the number of trailing zeros
divide_while_even_and_trailing_zeros_once(n) == <<n \div 2, 1>>

\* divide_while_even_and_trailing_zeros(n) == (m >> zeros, zeros)
divide_while_even_and_trailing_zeros(n) ==
    LET zeros == trailing_zeros(n, U128Bits)
    IN  <<n \div (2^zeros), zeros>>

\* rules::basic with the odd branch halved as well: the behaviour of
\* rules::halve_odds, used as a faulty variant of rules::basic
rules_basic_halving(n) ==
    IF is_odd(n) THEN (3 * n + 1) \div 2 ELSE n \div 2

\* rules::basic(n): 3n + 1 for odd n, n / 2 for even n
rules_basic(n) ==
    IF is_odd(n) THEN 3 * n + 1 ELSE n \div 2

---------------------------------------------------------------------------
(* lib.rs: steps::alpha *)

\* the state at loop entry
steps_alpha_init(n) == [n |-> n, steps |-> 0]

\* while n != 1
steps_alpha_cond(l) == l.n # 1

\* one iteration: an odd n takes 3n + 1 and one step first, then n /= 2 and
\* one more step
steps_alpha_body(l) ==
    LET n1 == IF is_odd(l.n) THEN 3 * l.n + 1 ELSE l.n
        s1 == IF is_odd(l.n) THEN l.steps + 1 ELSE l.steps
    IN  [n |-> n1 \div 2, steps |-> s1 + 1]

RECURSIVE steps_alpha_loop(_)
steps_alpha_loop(l) ==
    IF steps_alpha_cond(l) THEN steps_alpha_loop(steps_alpha_body(l)) ELSE l

\* steps::alpha(n)
steps_alpha(n) == steps_alpha_loop(steps_alpha_init(n)).steps

---------------------------------------------------------------------------
(* lib.rs: steps::omega, steps::omega_n_is_even, steps::omega_n_is_odd *)

steps_omega_n_is_odd_init(n) == [n |-> n, steps |-> 0]

steps_omega_n_is_odd_cond(l) == l.n # 1

\* the iteration with the odd rule's own step left out of the count
steps_omega_n_is_odd_body_uncounted(l) ==
    LET m == 3 * l.n + 1
        zeros == trailing_zeros(m, U128Bits)
    IN  [n |-> m \div (2^zeros), steps |-> l.steps + zeros]

\* one iteration: m = 3n + 1, n = m >> zeros, steps += zeros + 1
steps_omega_n_is_odd_body(l) ==
    LET m == 3 * l.n + 1
        zeros == trailing_zeros(m, U128Bits)
    IN  [n |-> m \div (2^zeros), steps |-> l.steps + zeros + 1]

RECURSIVE steps_omega_n_is_odd_loop(_)
steps_omega_n_is_odd_loop(l) ==
    IF steps_omega_n_is_odd_cond(l)
    THEN steps_omega_n_is_odd_loop(steps_omega_n_is_odd_body(l))
    ELSE l

\* steps::omega_n_is_odd(n)
steps_omega_n_is_odd(n) ==
    steps_omega_n_is_odd_loop(steps_omega_n_is_odd_init(n)).steps

\* steps::omega_n_is_even(n)
steps_omega_n_is_even(n) ==
    LET p == divide_while_even_and_trailing_zeros(n)
    IN  p[2] + steps_omega_n_is_odd(p[1])

\* steps::omega(n)
steps_omega(n) ==
    IF ~is_odd(n) THEN steps_omega_n_is_even(n) ELSE steps_omega_n_is_odd(n)

---------------------------------------------------------------------------
(* lib.rs: transformations *)

transformations_init(n) == [n |-> n, trans |-> <<n>>]

transformations_cond(l) == l.n # 1

\* n = rules::basic(n); trans.push(n)
transformations_body(l) ==
    LET next == rules_basic(l.n)
    IN  [n |-> next, trans |-> Append(l.trans, next)]

---------------------------------------------------------------------------
(* lib.rs: fall::omega, fall::omega_n_is_odd *)

\* fall::omega: let mut n: u128 = n.into()
fall_omega_init(n) == [n |-> n]

\* fall::omega, the two returns of the loop: n is even, or n is odd and
\* 3n + 1 has more than one trailing zero
fall_omega_returns(l) ==
    LET odd == is_odd(l.n)
        next_n == 3 * l.n + 1
    IN  \/ ~odd
        \/ odd /\ trailing_zeros(next_n, U128Bits) > 1

\* fall::omega, the end of an iteration: n = (9 * n + 5) / 2
fall_omega_body(l) == [n |-> (9 * l.n + 5) \div 2]

\* fall::omega(n): returns (TRUE here) when n is even or 3n + 1 has more than
\* one trailing zero, otherwise goes on with (9n + 5) / 2
RECURSIVE fall_omega(_)
fall_omega(n) ==
    LET odd == is_odd(n)
        next_n == 3 * n + 1
    IN  IF ~odd THEN TRUE
        ELSE IF odd /\ trailing_zeros(next_n, U128Bits) > 1 THEN TRUE
        ELSE fall_omega((9 * n + 5) \div 2)

\* fall::omega_n_is_odd(n): returns (TRUE here) when m = 3n + 1 has more than
\* one trailing zero, otherwise goes on with m / 2
RECURSIVE fall_omega_n_is_odd(_)
fall_omega_n_is_odd(n) ==
    LET m == 3 * n + 1
    IN  IF trailing_zeros(m, U128Bits) > 1 THEN TRUE
        ELSE fall_omega_n_is_odd(m \div 2)

---------------------------------------------------------------------------
(* lib.rs: check_range::check_range_omega, check_range_omega_all_odds *)

\* nums = start..end
check_range_omega_init(start, end) == [x |-> start, all |-> TRUE]

\* the range has a next element
check_range_omega_cond(l, end) == l.x < end

\* the closure of nums.all: fall::omega(x); true
check_range_omega_body(l) ==
    [x |-> l.x + 1, all |-> l.all /\ fall_omega(l.x)]

RECURSIVE check_range_omega_loop(_, _)
check_range_omega_loop(l, end) ==
    IF check_range_omega_cond(l, end)
    THEN check_range_omega_loop(check_range_omega_body(l), end)
    ELSE l

\* check_range::check_range_omega(start, end)
check_range_omega(start, end) ==
    check_range_omega_loop(check_range_omega_init(start, end), end).all

\* assert_eq!(step & 1, 1); assert!(start < end);
check_range_omega_all_odds_asserts(start, end, step) ==
    /\ step % 2 = 1
    /\ start < end

\* (start..end).step_by(step)
check_range_omega_all_odds_init(start, end) == [x |-> start, all |-> TRUE]

check_range_omega_all_odds_cond(l, end) == l.x < end

\* the closure of all: fall::omega_n_is_odd(x); black_box(()); true
check_range_omega_all_odds_body(l, step) ==
    [x |-> l.x + step, all |-> l.all /\ fall_omega_n_is_odd(l.x)]

---------------------------------------------------------------------------
(* lib.rs: bouncy_numbers::basic *)

\* record_number = 0, record_steps = 0, i at the start of start..end
bouncy_numbers_basic_init(start) ==
    [i |-> start, record_number |-> 0, record_steps |-> 0]

\* for i in start..end
bouncy_numbers_basic_cond(l, end) == l.i < end

\* the iteration with record_steps = steps left out
bouncy_numbers_basic_body_stale(l) ==
    LET steps == steps_omega(l.i)
    IN  IF l.record_steps < steps
        THEN [i |-> l.i + 1, record_number |-> l.i, record_steps |-> l.record_steps]
        ELSE [l EXCEPT !.i = l.i + 1]

\* one iteration: if record_steps < steps, i is the new record
bouncy_numbers_basic_body(l) ==
    LET steps == steps_omega(l.i)
    IN  IF l.record_steps < steps
        THEN [i |-> l.i + 1, record_number |-> l.i, record_steps |-> steps]
        ELSE [l EXCEPT !.i = l.i + 1]

RECURSIVE bouncy_numbers_basic_loop(_, _)
bouncy_numbers_basic_loop(l, end) ==
    IF bouncy_numbers_basic_cond(l, end)
    THEN bouncy_numbers_basic_loop(bouncy_numbers_basic_body(l), end)
    ELSE l

\* bouncy_numbers::basic(start, end) == (record_number, record_steps)
bouncy_numbers_basic(start, end) ==
    LET l == bouncy_numbers_basic_loop(bouncy_numbers_basic_init(start), end)
    IN  <<l.record_number, l.record_steps>>

---------------------------------------------------------------------------
(* lib.rs: bouncy_numbers::calculate_bouncy_sequence *)

\* retval = vec![], record_steps = 0, n at the start of start..end
calculate_bouncy_sequence_init(start) ==
    [n |-> start, record_steps |-> 0, retval |-> <<>>]

\* for n in start..end
calculate_bouncy_sequence_cond(l, end) == l.n < end

\* the iteration pushing on an equal step count too
calculate_bouncy_sequence_body_ties(l) ==
    LET steps == steps_omega(l.n)
    IN  IF steps >= l.record_steps
        THEN [n |-> l.n + 1, record_steps |-> steps,
              retval |-> Append(l.retval, <<l.n, steps>>)]
        ELSE [l EXCEPT !.n = l.n + 1]

\* one iteration: if steps > record_steps, record it and push (n, steps)
calculate_bouncy_sequence_body(l) ==
    LET steps == steps_omega(l.n)
    IN  IF steps > l.record_steps
        THEN [n |-> l.n + 1, record_steps |-> steps,
              retval |-> Append(l.retval, <<l.n, steps>>)]
        ELSE [l EXCEPT !.n = l.n + 1]

RECURSIVE calculate_bouncy_sequence_loop(_, _)
calculate_bouncy_sequence_loop(l, end) ==
    IF calculate_bouncy_sequence_cond(l, end)
    THEN calculate_bouncy_sequence_loop(calculate_bouncy_sequence_body(l), end)
    ELSE l

\* bouncy_numbers::calculate_bouncy_sequence(start, end) == retval
calculate_bouncy_sequence(start, end) ==
    calculate_bouncy_sequence_loop(calculate_bouncy_sequence_init(start), end).retval

---------------------------------------------------------------------------
(* lib.rs: bouncy_numbers::optimized *)

\* (start..end).map(..).reduce(..) is None on an empty range, and unwrap()
\* panics on it
bouncy_numbers_optimized_empty(start, end) == ~(start < end)

\* reduce takes the first pair (start, steps::omega(start)) as accumulator
bouncy_numbers_optimized_init(start) ==
    [n |-> start + 1, acc |-> <<start, steps_omega(start)>>]

\* the mapped range has a next pair
bouncy_numbers_optimized_cond(l, end) == l.n < end

\* the closure of reduce on (num1, steps1) = acc and (num2, steps2) = the next
\* pair: the next pair if steps2 > steps1, else acc
bouncy_numbers_optimized_body(l) ==
    LET steps2 == steps_omega(l.n)
    IN  [n |-> l.n + 1,
         acc |-> IF steps2 > l.acc[2] THEN <<l.n, steps2>> ELSE l.acc]

---------------------------------------------------------------------------
(* The generic code (rules.rs, steps.rs) at a type T of Width bits.         *)
(* Unchecked + and >> on T panic on overflow in a debug build and wrap in a *)
(* release build; b is the build.                                          *)

Builds == {"debug", "release"}

\* n + n + n + T::one(): Panic on overflow in a debug build, else Ret of the
\* sum modulo 2^Width
gen_three_n_plus_one(n, b) ==
    LET exact == n + n + n + 1
    IN  IF exact > MaxT /\ b = "debug" THEN Panic
        ELSE Ret(exact % (MaxT + 1))

\* m >> zeros: a shift by Width or more panics in a debug build and uses the
\* amount modulo Width in a release build
gen_shr(m, zeros, b) ==
    IF zeros >= Width /\ b = "debug" THEN Panic
    ELSE Ret(m \div (2^(zeros % Width)))

\* rules::odd_rule(n): checked_mul by three, then checked_add of one
gen_rules_odd_rule(n) ==
    IF 3 * n > MaxT THEN None
    ELSE IF 3 * n + 1 > MaxT THEN None
    ELSE Some(3 * n + 1)

\* rules::even_rule(n)
gen_rules_even_rule(n) == n \div 2

\* rules::basic(n)
gen_rules_basic(n) ==
    IF is_odd(n) THEN gen_rules_odd_rule(n) ELSE Some(gen_rules_even_rule(n))

\* crate::divide_while_even(n): n without its trailing zeros
gen_divide_while_even(n) == Some(n \div (2^trailing_zeros(n, Width)))

\* steps::alpha, the loop from the state l = [n, steps, seen].  seen holds the
\* values n had at earlier loop entries: the loop's exit depends on n alone,
\* so a value that comes again (after wrapping) means the loop never exits.
RECURSIVE gen_steps_alpha_loop(_, _)
gen_steps_alpha_loop(l, b) ==
    IF l.n = 1 THEN Ret(l.steps)
    ELSE IF l.n \in l.seen THEN Hang
    ELSE LET t == IF is_odd(l.n) THEN gen_three_n_plus_one(l.n, b) ELSE Ret(l.n)
             s1 == IF is_odd(l.n) THEN l.steps + 1 ELSE l.steps
         IN  IF t.kind = "panic" THEN Panic
             ELSE gen_steps_alpha_loop(
                      [n |-> t.val \div 2, steps |-> s1 + 1,
                       seen |-> l.seen \cup {l.n}], b)

\* steps::alpha(n)
gen_steps_alpha(n, b) ==
    gen_steps_alpha_loop([n |-> n, steps |-> 0, seen |-> {}], b)

\* steps::omega_n_is_odd: steps = 0, n = n.value (seen as in steps::alpha)
gen_steps_omega_n_is_odd_init(n) == [n |-> n, steps |-> 0, seen |-> {}]

\* steps::omega_n_is_odd at a loop entry with the locals l = [n, steps, seen]:
\* Some(steps) when the loop exits, Hang when n is a value it had before,
\* Panic when the iteration panics, else Ret of the locals after the
\* iteration m = n + n + n + 1, n = m >> zeros, steps += zeros + 1
gen_steps_omega_n_is_odd_next(l, b) ==
    IF l.n = 1 THEN Some(l.steps)
    ELSE IF l.n \in l.seen THEN Hang
    ELSE LET m == gen_three_n_plus_one(l.n, b)
         IN  IF m.kind = "panic" THEN Panic
             ELSE LET zeros == trailing_zeros(m.val, Width)
                      sh == gen_shr(m.val, zeros, b)
                  IN  IF sh.kind = "panic" THEN Panic
                      ELSE Ret([n |-> sh.val, steps |-> l.steps + zeros + 1,
                                seen |-> l.seen \cup {l.n}])

\* steps::omega_n_is_odd, the loop from the state l = [n, steps, seen]
RECURSIVE gen_steps_omega_n_is_odd_loop(_, _)
gen_steps_omega_n_is_odd_loop(l, b) ==
    LET r == gen_steps_omega_n_is_odd_next(l, b)
    IN  IF r.kind = "ret" THEN gen_steps_omega_n_is_odd_loop(r.val, b) ELSE r

\* steps::omega_n_is_odd(n)
gen_steps_omega_n_is_odd(n, b) ==
    gen_steps_omega_n_is_odd_loop(gen_steps_omega_n_is_odd_init(n), b)

\* steps::omega_n_is_even(n)
gen_steps_omega_n_is_even(n, b) ==
    LET steps == trailing_zeros(n, Width)
        d == gen_divide_while_even(n)
    IN  IF d.kind = "None" THEN None
        ELSE LET r == gen_steps_omega_n_is_odd(d.val, b)
             IN  IF r.kind = "Some" THEN Some(steps + r.val) ELSE r

\* steps::omega(n)
gen_steps_omega(n, b) ==
    IF is_odd(n) THEN gen_steps_omega_n_is_odd(n, b)
    ELSE gen_steps_omega_n_is_even(n, b)

---------------------------------------------------------------------------
(* decrease_steps.rs: decrease_steps::alpha, at the type T *)

\* starting_value = n.value, steps = 0.  seen is not a variable of the code:
\* it holds the values n had at earlier loop entries.
gen_decrease_steps_alpha_init(n) == [n |-> n, steps |-> 0, seen |-> {}]

\* the loop running only while n is above its starting value
gen_decrease_steps_alpha_cond_strict(l, starting_value) == l.n > starting_value

\* while n.value >= starting_value
gen_decrease_steps_alpha_cond(l, starting_value) == l.n >= starting_value

\* one iteration: n = rules::basic(n)?; steps += 1.  None when rules::basic
\* fails, else Ret of the locals after the iteration
gen_decrease_steps_alpha_body(l) ==
    LET r == gen_rules_basic(l.n)
    IN  IF r.kind = "None" THEN None
        ELSE Ret([n |-> r.val, steps |-> l.steps + 1, seen |-> l.seen \cup {l.n}])

\* The loop's condition and the next n depend on n alone, so a loop entry with
\* a value n had before repeats for ever; steps alone goes on growing, and
\* steps += 1 overflows u32 in the end: a panic in a debug build, a wrap (and
\* a loop that never exits) in a release build.
gen_decrease_steps_alpha_repeats(l, b) ==
    IF b = "debug" THEN Panic ELSE Hang

---------------------------------------------------------------------------
(* The calls *)

\* a call whose first statements have not run yet
Entry == [at |-> "entry"]

\* non-zero arguments
Values == 1..MaxN
Bounds == 1..MaxStop
StepBys == 1..MaxStepBy
ValuesT == 1..MaxT

ValueFns == {"steps_alpha", "transformations", "fall_omega"}
RangeFns == {"check_range_omega", "bouncy_numbers_basic", "calculate_bouncy_sequence"}
GenFns == {"gen_rules_odd_rule", "gen_steps_alpha", "gen_steps_omega"}
GenLoopFns == {"gen_decrease_steps_alpha", "gen_steps_omega_n_is_odd"}

\* the locals of a ValueFns or RangeFns call at its first loop entry
FirstLoc(f, a) ==
    CASE f = "steps_alpha" -> steps_alpha_init(a.n)
      [] f = "transformations" -> transformations_init(a.n)
      [] f = "fall_omega" -> fall_omega_init(a.n)
      [] f = "check_range_omega" -> check_range_omega_init(a.start, a.end)
      [] f = "bouncy_numbers_basic" -> bouncy_numbers_basic_init(a.start)
      [] f = "calculate_bouncy_sequence" -> calculate_bouncy_sequence_init(a.start)
      [] f = "gen_decrease_steps_alpha" -> gen_decrease_steps_alpha_init(a.n)
      [] f = "gen_steps_omega_n_is_odd" -> gen_steps_omega_n_is_odd_init(a.n)

Init ==
    /\ pc = "run"
    /\ result = Running
    /\ \/ /\ fn \in ValueFns
          /\ args \in [n : Values]
          /\ build \in Builds
          /\ loc = FirstLoc(fn, args)
       \/ /\ fn \in RangeFns
          /\ args \in [start : Bounds, end : Bounds]
          /\ build \in Builds
          /\ loc = FirstLoc(fn, args)
       \/ /\ fn = "steps_omega"
          /\ args \in [n : Values]
          /\ build \in Builds
          /\ loc = Entry
       \/ /\ fn = "check_range_omega_all_odds"
          /\ args \in [start : Bounds, end : Bounds, step : StepBys]
          /\ build \in Builds
          /\ loc = Entry
       \/ /\ fn = "bouncy_numbers_optimized"
          /\ args \in [start : Bounds, end : Bounds]
          /\ build \in Builds
          /\ loc = Entry
       \/ /\ fn \in GenLoopFns
          /\ args \in [n : ValuesT]
          /\ build \in Builds
          /\ loc = FirstLoc(fn, args)
       \/ /\ fn \in GenFns
          /\ args \in [n : ValuesT]
          /\ build \in Builds
          /\ loc = Entry

\* the call goes on with locals l
Goto(l) ==
    /\ loc' = l
    /\ UNCHANGED <<fn, args, build, pc, result>>

\* the call ends with r
Finish(r) ==
    /\ pc' = "done"
    /\ result' = r
    /\ UNCHANGED <<fn, args, build, loc>>

Running_(f) == pc = "run" /\ fn = f

(* steps::alpha *)
StepsAlphaStep ==
    /\ Running_("steps_alpha")
    /\ steps_alpha_cond(loc)
    /\ Goto(steps_alpha_body(loc))

StepsAlphaReturn ==
    /\ Running_("steps_alpha")
    /\ ~steps_alpha_cond(loc)
    /\ Finish(Ret(loc.steps))

(* steps::omega: the dispatch on parity, with omega_n_is_even's division; pre
   is the step count omega_n_is_even adds to omega_n_is_odd's *)
StepsOmegaEnter ==
    /\ Running_("steps_omega")
    /\ loc = Entry
    /\ IF ~is_odd(args.n)
       THEN LET p == divide_while_even_and_trailing_zeros(args.n)
            IN  Goto([pre |-> p[2], n |-> p[1], steps |-> 0])
       ELSE Goto([pre |-> 0, n |-> args.n, steps |-> 0])

StepsOmegaOddStep ==
    /\ Running_("steps_omega")
    /\ loc # Entry
    /\ steps_omega_n_is_odd_cond(loc)
    /\ LET l == steps_omega_n_is_odd_body([n |-> loc.n, steps |-> loc.steps])
       IN  Goto([pre |-> loc.pre, n |-> l.n, steps |-> l.steps])

StepsOmegaReturn ==
    /\ Running_("steps_omega")
    /\ loc # Entry
    /\ ~steps_omega_n_is_odd_cond(loc)
    /\ Finish(Ret(loc.pre + loc.steps))

(* transformations *)
TransformationsStep ==
    /\ Running_("transformations")
    /\ transformations_cond(loc)
    /\ Goto(transformations_body(loc))

TransformationsReturn ==
    /\ Running_("transformations")
    /\ ~transformations_cond(loc)
    /\ Finish(Ret(loc.trans))

(* fall::omega, one loop iteration per step *)
FallOmegaStep ==
    /\ Running_("fall_omega")
    /\ ~fall_omega_returns(loc)
    /\ Goto(fall_omega_body(loc))

FallOmegaReturn ==
    /\ Running_("fall_omega")
    /\ fall_omega_returns(loc)
    /\ Finish(Ret(TRUE))

(* check_range::check_range_omega *)
CheckRangeOmegaStep ==
    /\ Running_("check_range_omega")
    /\ check_range_omega_cond(loc, args.end)
    /\ Goto(check_range_omega_body(loc))

CheckRangeOmegaReturn ==
    /\ Running_("check_range_omega")
    /\ ~check_range_omega_cond(loc, args.end)
    /\ Finish(Ret(loc.all))

(* check_range::check_range_omega_all_odds *)
CheckRangeOmegaAllOddsAssertFails ==
    /\ Running_("check_range_omega_all_odds")
    /\ loc = Entry
    /\ ~check_range_omega_all_odds_asserts(args.start, args.end, args.step)
    /\ Finish(Panic)

CheckRangeOmegaAllOddsEnter ==
    /\ Running_("check_range_omega_all_odds")
    /\ loc = Entry
    /\ check_range_omega_all_odds_asserts(args.start, args.end, args.step)
    /\ Goto(check_range_omega_all_odds_init(args.start, args.end))

CheckRangeOmegaAllOddsStep ==
    /\ Running_("check_range_omega_all_odds")
    /\ loc # Entry
    /\ check_range_omega_all_odds_cond(loc, args.end)
    /\ Goto(check_range_omega_all_odds_body(loc, args.step))

CheckRangeOmegaAllOddsReturn ==
    /\ Running_("check_range_omega_all_odds")
    /\ loc # Entry
    /\ ~check_range_omega_all_odds_cond(loc, args.end)
    /\ Finish(Ret(loc.all))

(* bouncy_numbers::basic *)
BouncyNumbersBasicStep ==
    /\ Running_("bouncy_numbers_basic")
    /\ bouncy_numbers_basic_cond(loc, args.end)
    /\ Goto(bouncy_numbers_basic_body(loc))

BouncyNumbersBasicReturn ==
    /\ Running_("bouncy_numbers_basic")
    /\ ~bouncy_numbers_basic_cond(loc, args.end)
    /\ Finish(Ret(<<loc.record_number, loc.record_steps>>))

(* bouncy_numbers::calculate_bouncy_sequence *)
CalculateBouncySequenceStep ==
    /\ Running_("calculate_bouncy_sequence")
    /\ calculate_bouncy_sequence_cond(loc, args.end)
    /\ Goto(calculate_bouncy_sequence_body(loc))

CalculateBouncySequenceReturn ==
    /\ Running_("calculate_bouncy_sequence")
    /\ ~calculate_bouncy_sequence_cond(loc, args.end)
    /\ Finish(Ret(loc.retval))

(* bouncy_numbers::optimized *)
BouncyNumbersOptimizedUnwrapFails ==
    /\ Running_("bouncy_numbers_optimized")
    /\ loc = Entry
    /\ bouncy_numbers_optimized_empty(args.start, args.end)
    /\ Finish(Panic)

BouncyNumbersOptimizedEnter ==
    /\ Running_("bouncy_numbers_optimized")
    /\ loc = Entry
    /\ ~bouncy_numbers_optimized_empty(args.start, args.end)
    /\ Goto(bouncy_numbers_optimized_init(args.start))

BouncyNumbersOptimizedStep ==
    /\ Running_("bouncy_numbers_optimized")
    /\ loc # Entry
    /\ bouncy_numbers_optimized_cond(loc, args.end)
    /\ Goto(bouncy_numbers_optimized_body(loc))

BouncyNumbersOptimizedReturn ==
    /\ Running_("bouncy_numbers_optimized")
    /\ loc # Entry
    /\ ~bouncy_numbers_optimized_cond(loc, args.end)
    /\ Finish(Ret(loc.acc))

(* decrease_steps::alpha *)
DecreaseStepsAlphaStep ==
    /\ Running_("gen_decrease_steps_alpha")
    /\ gen_decrease_steps_alpha_cond(loc, args.n)
    /\ loc.n \notin loc.seen
    /\ gen_decrease_steps_alpha_body(loc).kind = "ret"
    /\ Goto(gen_decrease_steps_alpha_body(loc).val)

DecreaseStepsAlphaOverflow ==
    /\ Running_("gen_decrease_steps_alpha")
    /\ gen_decrease_steps_alpha_cond(loc, args.n)
    /\ loc.n \notin loc.seen
    /\ gen_decrease_steps_alpha_body(loc).kind = "None"
    /\ Finish(None)

DecreaseStepsAlphaRepeats ==
    /\ Running_("gen_decrease_steps_alpha")
    /\ gen_decrease_steps_alpha_cond(loc, args.n)
    /\ loc.n \in loc.seen
    /\ Finish(gen_decrease_steps_alpha_repeats(loc, build))

DecreaseStepsAlphaReturn ==
    /\ Running_("gen_decrease_steps_alpha")
    /\ ~gen_decrease_steps_alpha_cond(loc, args.n)
    /\ Finish(Some(loc.steps))

(* steps::omega_n_is_odd of steps.rs, one loop iteration per step *)
GenStepsOmegaNIsOddStep ==
    /\ Running_("gen_steps_omega_n_is_odd")
    /\ gen_steps_omega_n_is_odd_next(loc, build).kind = "ret"
    /\ Goto(gen_steps_omega_n_is_odd_next(loc, build).val)

GenStepsOmegaNIsOddEnd ==
    /\ Running_("gen_steps_omega_n_is_odd")
    /\ gen_steps_omega_n_is_odd_next(loc, build).kind # "ret"
    /\ Finish(gen_steps_omega_n_is_odd_next(loc, build))

(* the generic functions, each call in one step *)
GenRulesOddRule ==
    /\ Running_("gen_rules_odd_rule")
    /\ Finish(gen_rules_odd_rule(args.n))

GenStepsAlpha ==
    /\ Running_("gen_steps_alpha")
    /\ Finish(gen_steps_alpha(args.n, build))

GenStepsOmega ==
    /\ Running_("gen_steps_omega")
    /\ Finish(gen_steps_omega(args.n, build))

Next ==
    \/ StepsAlphaStep
    \/ StepsAlphaReturn
    \/ StepsOmegaEnter
    \/ StepsOmegaOddStep
    \/ StepsOmegaReturn
    \/ TransformationsStep
    \/ TransformationsReturn
    \/ FallOmegaStep
    \/ FallOmegaReturn
    \/ CheckRangeOmegaStep
    \/ CheckRangeOmegaReturn
    \/ CheckRangeOmegaAllOddsAssertFails
    \/ CheckRangeOmegaAllOddsEnter
    \/ CheckRangeOmegaAllOddsStep
    \/ CheckRangeOmegaAllOddsReturn
    \/ BouncyNumbersBasicStep
    \/ BouncyNumbersBasicReturn
    \/ CalculateBouncySequenceStep
    \/ CalculateBouncySequenceReturn
    \/ BouncyNumbersOptimizedUnwrapFails
    \/ BouncyNumbersOptimizedEnter
    \/ BouncyNumbersOptimizedStep
    \/ BouncyNumbersOptimizedReturn
    \/ DecreaseStepsAlphaStep
    \/ DecreaseStepsAlphaOverflow
    \/ DecreaseStepsAlphaRepeats
    \/ DecreaseStepsAlphaReturn
    \/ GenStepsOmegaNIsOddStep
    \/ GenStepsOmegaNIsOddEnd
    \/ GenRulesOddRule
    \/ GenStepsAlpha
    \/ GenStepsOmega

Spec == Init /\ [][Next]_vars

---------------------------------------------------------------------------
(* tests::steps_range_conforms_to_oeis *)

\* oeis_steps: the number of steps to reach 1 for the integers 1..=72
oeis_steps ==
    <<0, 1, 7, 2, 5, 8, 16, 3, 19, 6, 14, 9, 9, 17, 17, 4, 12, 20, 20, 7,
      7, 15, 15, 10, 23, 10, 111, 18, 18, 18, 106, 5, 26, 13, 13, 21,
      21, 21, 34, 8, 109, 8, 29, 16, 16, 16, 104, 11, 24, 24, 24, 11,
      11, 112, 112, 19, 32, 19, 32, 19, 19, 107, 107, 6, 27, 27, 27,
      14, 14, 14, 102, 22>>

---------------------------------------------------------------------------
(* Properties *)

\* the call of f has ended
Done(f) == pc = "done" /\ fn = f

\* The u128 functions never come near 2^128 with the arguments of the model.
InU128Range ==
    (pc = "run" /\ loc # Entry /\ fn \in {"steps_alpha", "steps_omega", "transformations"})
        => 3 * loc.n + 1 < 2^30

\* some 3m + 1 along the exact trajectory of n is larger than the largest
\* value of T
RECURSIVE TrajectoryOverflows(_)
TrajectoryOverflows(n) ==
    IF n = 1 THEN FALSE
    ELSE IF is_odd(n) THEN 3 * n + 1 > MaxT \/ TrajectoryOverflows(3 * n + 1)
    ELSE TrajectoryOverflows(n \div 2)

\* C1: steps::omega and steps::alpha return the same count, for even and odd
\* n: each u128 call ends with the count the other function computes, and a
\* generic call on an n whose trajectory stays inside T ends with
\* omega(n) = Some(alpha(n)).
C1_OracleEquivalence ==
    /\ Done("steps_alpha") => result = Ret(steps_omega(args.n))
    /\ Done("steps_omega") => result = Ret(steps_alpha(args.n))
    /\ (Done("gen_steps_omega") /\ ~TrajectoryOverflows(args.n)) =>
           LET a == gen_steps_alpha(args.n, build)
           IN  a.kind = "ret" /\ result = Some(a.val)
    /\ (Done("gen_steps_alpha") /\ ~TrajectoryOverflows(args.n)) =>
           /\ result.kind = "ret"
           /\ gen_steps_omega(args.n, build) = Some(result.val)

\* an even n with an odd part other than 1 was counted by steps::omega
C1_Witness ==
    /\ Done("steps_omega")
    /\ args.n = 54
    /\ loc.pre = 1
    /\ result = Ret(112)

\* C2: for n from 1 to 72 steps::omega(n) is the n-th entry of oeis_steps;
\* steps::omega(1) is 0.
C2_KnownSequence ==
    Done("steps_omega") =>
        /\ args.n <= Len(oeis_steps) => result = Ret(oeis_steps[args.n])
        /\ args.n = 1 => result = Ret(0)

\* steps::omega has counted the 111 steps of 27
C2_Witness ==
    /\ Done("steps_omega")
    /\ args.n = 27
    /\ result = Ret(111)

\* C3: transformations(n) starts with n, each element is rules::basic of the
\* one before, the last is 1 and the length is steps::omega(n) + 1;
\* transformations(1) = [1] and transformations(4) = [4, 2, 1].
C3_TrajectoryInvariant ==
    Done("transformations") =>
        LET t == result.val
        IN  /\ result.kind = "ret"
            /\ t[1] = args.n
            /\ \A k \in 1..(Len(t) - 1) : t[k + 1] = rules_basic(t[k])
            /\ t[Len(t)] = 1
            /\ Len(t) = steps_omega(args.n) + 1
            /\ args.n = 1 => t = <<1>>
            /\ args.n = 4 => t = <<4, 2, 1>>

\* the trajectory of 27 was returned, 112 values long
C3_Witness ==
    /\ Done("transformations")
    /\ args.n = 27
    /\ Len(result.val) = 112
    /\ result.val[Len(result.val)] = 1

\* the values of start..end (end excluded)
Range(start, end) == start..(end - 1)

\* v takes more steps than every value of the range before it
IsRecord(v, start) ==
    \A u \in Range(start, v) : steps_omega(u) < steps_omega(v)

\* C4: for 1 <= start < stop, calculate_bouncy_sequence(start, stop) has a
\* last element, and it is the pair bouncy_numbers::basic(start, stop)
\* returns.
C4_RecordMaxConsistency ==
    (Done("calculate_bouncy_sequence") /\ args.start < args.end) =>
        LET r == result.val
        IN  /\ Len(r) >= 1
            /\ r[Len(r)] = bouncy_numbers_basic(args.start, args.end)

\* C5 as first stated: bouncy_numbers::basic(1, 10) is (7, 16).
C5_WorkedExampleAsStated ==
    (Done("bouncy_numbers_basic") /\ args = [start |-> 1, end |-> 10]) =>
        result = Ret(<<7, 16>>)

\* C5: bouncy_numbers::basic(1, 10) is (9, 19), the range 1..9 holding 9 with
\* its 19 steps; (7, 16) is bouncy_numbers::basic(1, 9).
C5_WorkedExample ==
    /\ (Done("bouncy_numbers_basic") /\ args = [start |-> 1, end |-> 10]) =>
           result = Ret(<<9, 19>>)
    /\ (Done("bouncy_numbers_basic") /\ args = [start |-> 1, end |-> 9]) =>
           result = Ret(<<7, 16>>)

\* the scan of 1..9 has ended
C5_Witness ==
    /\ Done("bouncy_numbers_basic")
    /\ args = [start |-> 1, end |-> 10]
    /\ loc.i = 10
    /\ result.val[2] = steps_omega(9)

\* C6: for 1 <= start < stop, bouncy_numbers::basic returns (v, s) with v in
\* the range, s = steps::omega(v) the largest step count of the range, and v
\* the smallest value of the range with s steps.
C6_MaximumEarliestTie ==
    (Done("bouncy_numbers_basic") /\ args.start < args.end) =>
        LET v == result.val[1]
            s == result.val[2]
        IN  /\ v \in Range(args.start, args.end)
            /\ s = steps_omega(v)
            /\ \A u \in Range(args.start, args.end) : steps_omega(u) <= s
            /\ \A u \in Range(args.start, v) : steps_omega(u) < s

\* C7: calculate_bouncy_sequence(start, stop) is, in increasing order of
\* value, exactly the values of the range that take more steps than every
\* earlier value of the range, the first value of the range among them, each
\* with its steps::omega.
C7_RecordEnumerationExact ==
    Done("calculate_bouncy_sequence") =>
        LET r == result.val
            all == [k \in 1..(IF args.end > args.start THEN args.end - args.start ELSE 0)
                       |-> <<args.start + k - 1, steps_omega(args.start + k - 1)>>]
            rec(p) == IsRecord(p[1], args.start)
        IN  r = SelectSeq(all, rec)

\* C8: all through the scan of calculate_bouncy_sequence and in its result,
\* the emitted pairs are strictly increasing in value and in step count, and
\* record_steps is the step count of the last emitted pair, 0 with none.
C8_RecordMonotonicity ==
    (fn = "calculate_bouncy_sequence") =>
        LET r == loc.retval
        IN  /\ \A k \in 1..(Len(r) - 1) :
                   r[k][1] < r[k + 1][1] /\ r[k][2] < r[k + 1][2]
            /\ loc.record_steps = (IF Len(r) = 0 THEN 0 ELSE r[Len(r)][2])
            /\ pc = "done" => result = Ret(r)

\* the scan is under way with three records emitted, the last one not at the
\* previous value
C8_Witness ==
    /\ fn = "calculate_bouncy_sequence"
    /\ pc = "run"
    /\ Len(loc.retval) = 3
    /\ loc.retval[3][1] < loc.n - 1
    /\ loc.n < args.end

\* C9: over T, when some 3m + 1 along the trajectory of n exceeds the largest
\* value of T, rules::odd_rule returns None there and steps::omega(n) returns
\* None.
C9_OverflowPropagation ==
    /\ (Done("gen_rules_odd_rule") /\ is_odd(args.n) /\ 3 * args.n + 1 > MaxT) =>
           result = None
    /\ (Done("gen_steps_omega") /\ TrajectoryOverflows(args.n)) =>
           result = None

\* C10: with an odd start, start < stop and an even step,
\* check_range_omega_all_odds ends without a failed assertion and returns
\* what check_range_omega returns on the same bounds.
C10_OddOnlyFastPath ==
    ( /\ Done("check_range_omega_all_odds")
      /\ is_odd(args.start)
      /\ args.start < args.end
      /\ args.step % 2 = 0 ) =>
        result = Ret(check_range_omega(args.start, args.end))

\* C11: for 1 <= start < stop, bouncy_numbers::optimized(start, stop) returns
\* the pair bouncy_numbers::basic(start, stop) returns.
C11_LoopReduceAgree ==
    (Done("bouncy_numbers_optimized") /\ args.start < args.end) =>
        result = Ret(bouncy_numbers_basic(args.start, args.end))

\* the value after k applications of the Collatz rule to the natural number
\* n, in exact arithmetic: k applications are k \div 2 of them and then the
\* rest, and the rule leaves 0 at 0
RECURSIVE Iterate(_, _)
Iterate(n, k) ==
    IF k = 0 THEN n
    ELSE IF k = 1 THEN (IF n % 2 = 1 THEN 3 * n + 1 ELSE n \div 2)
    ELSE LET h == k \div 2
             mid == Iterate(n, h)
         IN  IF mid > 0 THEN Iterate(mid, k - h) ELSE mid

\* C12: when decrease_steps::alpha(n) returns Some(k), k >= 1, the value
\* after k applications of rules::basic is below n and the value after every
\* smaller positive number of applications is not; for even n the result is
\* Some(1).
C12_DecreaseSteps ==
    Done("gen_decrease_steps_alpha") =>
        /\ result.kind = "Some" =>
               LET k == result.val
               IN  /\ k >= 1
                   /\ Iterate(args.n, k) < args.n
                   /\ \A j \in 1..(k - 1) : Iterate(args.n, j) >= args.n
        /\ ~is_odd(args.n) => result = Some(1)

\* decrease_steps::alpha(7) has returned after the 11 steps 7 takes to get
\* to 5
C12_Witness ==
    /\ Done("gen_decrease_steps_alpha")
    /\ args.n = 7
    /\ loc.n = 5
    /\ result = Some(11)

\* C14: every call of decrease_steps::alpha, that on 1 included, ends because
\* the value has fallen below the starting value (Some) or because of an
\* overflow (None).
C14_DecreaseStepsTerminates ==
    Done("gen_decrease_steps_alpha") => result.kind \in {"Some", "None"}

\* the number of times m > 0 can be halved, in exact arithmetic
RECURSIVE Halvings(_)
Halvings(m) == IF m % 2 = 1 THEN 0 ELSE 1 + Halvings(m \div 2)

\* from the value n and step total steps at a loop entry, one iteration of the
\* odd loop leaves the value n2 and the step total steps2 the claim describes:
\* with m = 3n + 1 and z its trailing zeros, m is even, z >= 1, n2 = m >> z
\* and steps2 = steps + z + 1
OddIteration(n, steps, n2, steps2) ==
    LET m == 3 * n + 1
        z == Halvings(m)
    IN  /\ m % 2 = 0
        /\ z >= 1
        /\ n2 = m \div (2^z)
        /\ steps2 = steps + z + 1

\* C13: in steps::omega_n_is_odd started on an odd n, the value at every loop
\* entry is odd and not zero, every iteration takes n to (3n + 1) >> z and
\* adds z + 1 to steps, z >= 1 being the trailing zeros of the exact 3n + 1,
\* and steps at every loop entry is the number of rules::basic applications
\* from the starting value to the current one.  First for lib.rs (whatever
\* the parity of the argument of steps::omega), then for steps.rs at T.
C13_OddLoopInvariant ==
    /\ (fn = "steps_omega" /\ loc # Entry) =>
           /\ is_odd(loc.n) /\ loc.n # 0
           /\ Iterate(args.n, loc.pre + loc.steps) = loc.n
           /\ steps_omega_n_is_odd_cond(loc) =>
                  LET l == steps_omega_n_is_odd_body(loc)
                  IN  OddIteration(loc.n, loc.steps, l.n, l.steps)
    /\ (fn = "gen_steps_omega_n_is_odd" /\ is_odd(args.n)) =>
           /\ is_odd(loc.n) /\ loc.n # 0
           /\ Iterate(args.n, loc.steps) = loc.n
           /\ LET r == gen_steps_omega_n_is_odd_next(loc, build)
              IN  \/ r = Some(loc.steps) /\ loc.n = 1
                  \/ /\ r.kind = "ret"
                     /\ OddIteration(loc.n, loc.steps, r.val.n, r.val.steps)

\* the odd number left when every factor two of m > 0 is divided out
OddPart(m) == m \div (2^Halvings(m))

\* C15: for n >= 2, fall::omega(n) returns only at a point of the trajectory
\* of n from where halving leads below n: the even value reached (the current
\* value, or 3n + 1 of an odd current value), halved as often as it is even,
\* is smaller than the starting value; and every update n := (9n + 5) / 2 is
\* the value 3 * ((3n + 1) / 2) + 1 that three applications of the Collatz
\* rule give.
C15_FallOmegaSound ==
    /\ (Running_("fall_omega") /\ ~fall_omega_returns(loc)) =>
           /\ fall_omega_body(loc).n = 3 * ((3 * loc.n + 1) \div 2) + 1
           /\ fall_omega_body(loc).n = Iterate(loc.n, 3)
    /\ (Done("fall_omega") /\ args.n >= 2) =>
           OddPart(IF is_odd(loc.n) THEN 3 * loc.n + 1 ELSE loc.n) < args.n

====
